---- MODULE Spec2Model ----
(***************************************************************************)
(* Model of the youngsphere progress app (progress/models.py): the         *)
(* StudentProgress, StudentProgressHistory and CourseModuleCompletion      *)
(* tables, the four ranking queries of StudentProgress, and the            *)
(* completion-event ingestion that feeds them; and of the youngsphere      *)
(* sites app: the two redirect middlewares (sites/middleware.py) with      *)
(* their caches, and AlternativeDomainSerializer.create                    *)
(* (sites/serializers.py).                                                 *)
(***************************************************************************)
EXTENDS Integers, Sequences, FiniteSets, TLC

\* ------------------------------------------------------------------ bounds
NumUsers == 3
NumCourses == 2
NumOrgs == 2
NumGroups == 2
MaxCompletions == 2
MaxTime == 2
\* In the tables the filtered queries are tried on: the users that hold rows,
\* and the rows of each many-to-many table.
FilterUsers == 2
MaxMemberships == 2
\* The users that send completion events.
NumLearners == 2
\* The completion-event handlers that run at the same time.
NumHandlers == 2
\* The sites, the requests in flight and the create calls in flight.
NumSites == 2
NumRequests == 2
NumCreates == 2
\* The writes to the AlternativeDomain and Redirect tables in one run, and
\* the create calls in a run of nothing but create calls.
MaxWrites == 2
MaxCreateCalls == 3

Users == 1..NumUsers
Courses == 1..NumCourses
Orgs == 1..NumOrgs
Groups == 1..NumGroups
Learners == 1..NumLearners
Handlers == 1..NumHandlers
Sites == 1..NumSites
Requests == 1..NumRequests
Creates == 1..NumCreates

\* The optional count argument of generate_leaderboard: the empty tuple for
\* Python's None, else the one-tuple of the number.
None == <<>>

VARIABLES
    progress,         \* StudentProgress table: set of rows, unique on (user, course_id)
    history,          \* StudentProgressHistory table: per (user, course_id), the completions of its rows in insertion order
    cmc,              \* CourseModuleCompletion table: set of rows
    is_active,        \* auth User.is_active, per user
    courseenrollment, \* pairs <<user, course>> with a CourseEnrollment row whose is_active is True
    organizations,    \* user.organizations (many-to-many), per user
    groups,           \* user.groups (many-to-many), per user
    call,             \* the ranking query that ran, with its arguments
    result,           \* what that query returned
    allow_closed,     \* settings.FEATURES['ALLOW_STUDENT_STATE_UPDATES_ON_CLOSED_COURSE']
    clock,            \* the time a save stamps on a row
    ev,               \* the completion event or signal being handled, or handled last
    pc,               \* where the handler is: idle, cmc_saved, progress_saved, done
    undo,             \* the tables as they were when the event's transaction began
    handlers,         \* the completion-event handlers running at the same time, each with its position
    alternativedomain, \* AlternativeDomain table: set of rows, at most one per site
    redirects,        \* django.contrib.redirects Redirect table: set of rows, unique on (site, old_path)
    cache_general,    \* caches['general']: per key, None or the one-tuple of the cached value
    cache_default,    \* the default cache: per key, None or the one-tuple of the cached value
    cached_rules,     \* per key of the default cache, the Redirect rows its entry was built from
    cache_up,         \* whether the cache backend answers
    policy_settings,  \* whether SITE_ID and MAIN_SITE_REDIRECT_WHITELIST are set
    requests,         \* the requests in the middlewares, each with its locals and its position
    creates,          \* the AlternativeDomainSerializer.create calls, each with its locals and its position
    latest,           \* per site, the domains passed by the create calls that no later call has followed
    writes            \* how many times the AlternativeDomain and Redirect tables were written

sites == <<alternativedomain, redirects, cache_general, cache_default, cached_rules, cache_up, policy_settings,
           requests, creates, latest, writes>>

vars == <<progress, history, cmc, is_active, courseenrollment, organizations, groups, call, result,
          allow_closed, clock, ev, pc, undo, handlers, sites>>

ingestion == <<allow_closed, clock, ev, pc, undo>>

tables == <<progress, history, cmc, is_active, courseenrollment, organizations, groups>>

\* ------------------------------------------------------------------ tables

\* A StudentProgress row. created is written once and never read by any query.
StudentProgress(user, course_id, completions, modified) ==
    [user |-> user, course_id |-> course_id, completions |-> completions, modified |-> modified]

\* A StudentProgressHistory table without rows.
NoHistory == [uc \in Users \X Courses |-> <<>>]

\* No completion event being handled.
NoEvent == [verdict |-> "none", user |-> 0, course_id |-> 0, item |-> "", role |-> "", status |-> ""]

\* No handler running, at a time by which every row was stamped.
IngestionIdle ==
    /\ allow_closed = TRUE
    /\ clock = MaxTime
    /\ ev = NoEvent
    /\ pc = "idle"
    /\ undo = <<>>

\* A handler slot without an event.
NoHandler == [pc |-> "idle", user |-> 0, course_id |-> 0, seen |-> 0, saved |-> 0, verdict |-> "none"]

\* No concurrent handler running.
UpsertIdle == handlers = [h \in Handlers |-> NoHandler]

\* ------------------------------------------------------------------ the sites app: settings, strings, tables
\* A string is the sequence of its pieces, the empty sequence the empty string.
\* A value that can be None is None or the one-tuple of the value, so that a
\* cached empty string is told from a missing key.

Some(v) == <<v>>

\* str.endswith
EndsWith(string, suffix) ==
    /\ Len(suffix) <= Len(string)
    /\ SubSeq(string, Len(string) - Len(suffix) + 1, Len(string)) = suffix

\* The operator in on strings: piece occurs in string.
Contains(piece, string) ==
    \E i \in 1..(Len(string) - Len(piece) + 1) : SubSeq(string, i, i + Len(piece) - 1) = piece

\* '{prefix}-{site}'.format(prefix=prefix, site=site)
CacheKey(prefix, site) == <<prefix, "-">> \o site

SITE_NAME == <<"y">>

SITE_ID == 1

MAIN_SITE_REDIRECT_WHITELIST == { <<"w">> }

CUSTOM_DOMAINS_REDIRECT_CACHE_KEY_PREFIX == "custom_domains_redirects"

REDIRECT_CACHE_KEY_PREFIX == "redirects"

ADMIN_URL == <<"https://", "youngsphere.com", "/admin/">>

\* Site.domain of each site: the main site's, then the tenants'.
SiteDomains == << <<"y">>, <<"c">>, <<"d", "y">>, <<"e">> >>

SiteDomain(site) == SiteDomains[site]

\* The hostnames requests come for and alternative domains are made of: two
\* under SITE_NAME, one outside.
Hostnames == { <<"a", "y">>, <<"b", "y">>, <<"c">> }

\* The paths of the requests: one plain, one holding a whitelist entry.
Paths == { <<"p">>, <<"p", "w">> }

\* What Redirect.new_path holds: nothing, or a path.
NewPaths == { <<>>, <<"n">> }

AlternativeDomain(site, domain) == [site |-> site, domain |-> domain]

Redirect(site, old_path, new_path) == [site |-> site, old_path |-> old_path, new_path |-> new_path]

GeneralKeys == { CacheKey(CUSTOM_DOMAINS_REDIRECT_CACHE_KEY_PREFIX, h) : h \in Hostnames }

DefaultKeys == { CacheKey(REDIRECT_CACHE_KEY_PREFIX, SiteDomain(site)) : site \in Sites }

\* What process_request gives back: None, a redirect, or an exception.
NoResponse == [kind |-> "none", to |-> <<>>, permanent |-> FALSE]

redirect(to, permanent) == [kind |-> "redirect", to |-> to, permanent |-> permanent]

Raised == [kind |-> "raise", to |-> <<>>, permanent |-> FALSE]

\* A request slot without a request.
NoRequest ==
    [pc |-> "idle", mw |-> "", host |-> <<>>, site |-> 0, path |-> <<>>, value |-> None,
     rules |-> {}, hit |-> FALSE, queries |-> 0, response |-> NoResponse]

\* A create slot without a call.
NoCreate == [pc |-> "idle", site |-> 0, domain |-> <<>>, created |-> FALSE]

\* Empty caches that answer, no request and no create call.
SitesAtRest ==
    /\ cache_general = [k \in GeneralKeys |-> None]
    /\ cache_default = [k \in DefaultKeys |-> None]
    /\ cached_rules = [k \in DefaultKeys |-> {}]
    /\ cache_up = TRUE
    /\ requests = [r \in Requests |-> NoRequest]
    /\ creates = [k \in Creates |-> NoCreate]
    /\ latest = [site \in Sites |-> {}]
    /\ writes = 0

\* The same with no table row.
SitesEmpty ==
    /\ alternativedomain = {}
    /\ redirects = {}
    /\ SitesAtRest

\* The sites app at rest, with the settings of the main-site policy in place.
SitesIdle == SitesEmpty /\ policy_settings = TRUE

\* ------------------------------------------------------------------ querysets
\* A queryset is the set of rows of the SQL join it stands for: one record per
\* combination of a StudentProgress row with the joined organization and group
\* rows (0 when that table is not joined).  Without DISTINCT every join row
\* yields one result row, so a summary can come back more than once.

JoinRow(sp, org, grp) == [sp |-> sp, org |-> org, grp |-> grp]

\* EnrolledQueryset with course_id__exact left out of the filter: the rows of
\* every course, of the users enrolled in the course asked for.
EnrolledQueryset_AnyCourse(course_key, exclude_users) ==
    { JoinRow(sp, 0, 0) : sp \in
        { r \in progress : /\ is_active[r.user]
                           /\ <<r.user, course_key>> \in courseenrollment
                           /\ r.user \notin exclude_users } }

\* cls.objects.filter(course_id__exact=..., user__is_active=True,
\*   user__courseenrollment__is_active=True,
\*   user__courseenrollment__course_id__exact=...).exclude(user__id__in=exclude_users)
EnrolledQueryset(course_key, exclude_users) ==
    { JoinRow(sp, 0, 0) : sp \in
        { r \in progress : /\ r.course_id = course_key
                           /\ is_active[r.user]
                           /\ <<r.user, course_key>> \in courseenrollment
                           /\ r.user \notin exclude_users } }

\* if org_ids: queryset = queryset.filter(user__organizations__in=org_ids)
FilterOrganizations(queryset, org_ids) ==
    IF org_ids = {} THEN queryset
    ELSE UNION { { [j EXCEPT !.org = o] : o \in organizations[j.sp.user] \cap org_ids } : j \in queryset }

\* queryset.filter(user__groups__in=group_ids), without the .distinct()
FilterGroups(queryset, group_ids) ==
    UNION { { [j EXCEPT !.grp = g] : g \in groups[j.sp.user] \cap group_ids } : j \in queryset }

\* queryset.distinct(): one result row per StudentProgress row
Distinct(queryset) == { JoinRow(j.sp, 0, 0) : j \in queryset }

RECURSIVE SumCompletions(_)
SumCompletions(queryset) ==
    IF queryset = {} THEN 0
    ELSE LET j == CHOOSE x \in queryset : TRUE
         IN  j.sp.completions + SumCompletions(queryset \ {j})

\* ------------------------------------------------------------------ queries

\* get_total_completions with the .distinct() after the group filter left out.
get_total_completions_NoDistinct(course_key, exclude_users, org_ids, group_ids) ==
    LET q0 == EnrolledQueryset(course_key, exclude_users)
        q1 == FilterOrganizations(q0, org_ids)
        q2 == IF group_ids # {} THEN FilterGroups(q1, group_ids) ELSE q1
    IN  SumCompletions(q2)

\* StudentProgress.get_total_completions
get_total_completions(course_key, exclude_users, org_ids, group_ids) ==
    LET q0 == EnrolledQueryset(course_key, exclude_users)
        q1 == FilterOrganizations(q0, org_ids)
        q2 == IF group_ids # {} THEN Distinct(FilterGroups(q1, group_ids)) ELSE q1
    IN  SumCompletions(q2)

\* StudentProgress.get_num_users_started
get_num_users_started(course_key, exclude_users, org_ids, group_ids) ==
    LET q0 == EnrolledQueryset(course_key, exclude_users)
        q1 == FilterOrganizations(q0, org_ids)
        q2 == IF group_ids # {} THEN FilterGroups(q1, group_ids) ELSE q1
    IN  Cardinality(Distinct(q2))

\* Above with the tie broken the other way (modified__gt): a later row wins.
Above_LaterWins(r, user_completions, user_time_completed) ==
    \/ r.completions > user_completions
    \/ r.completions = user_completions /\ r.modified > user_time_completed

\* Q(completions__gt=c) | Q(completions=c, modified__lt=t)
Above(r, user_completions, user_time_completed) ==
    \/ r.completions > user_completions
    \/ r.completions = user_completions /\ r.modified < user_time_completed

\* The rows counted into users_above: the Q filter, course_id__exact,
\* user__is_active=True, then .exclude(user__id__in=exclude_users).
UsersAbove(course_key, user_completions, user_time_completed, exclude_users) ==
    { r \in progress : /\ Above(r, user_completions, user_time_completed)
                       /\ r.course_id = course_key
                       /\ is_active[r.user]
                       /\ r.user \notin exclude_users }

\* get_user_position looking the row up by user alone (course_id__exact left
\* out of the get): a row of another course is then taken for the user's.
get_user_position_AnyCourse(course_key, user_id, exclude_users) ==
    LET found == { r \in progress : r.user = user_id }
    IN  IF found = {} THEN [completions |-> 0, position |-> 0]
        ELSE IF Cardinality(found) > 1 THEN [raised |-> "MultipleObjectsReturned"]
        ELSE LET queryset == CHOOSE r \in found : TRUE
                 users_above == Cardinality({ r \in progress :
                                    /\ \/ r.completions > queryset.completions
                                       \/ r.completions = queryset.completions /\ r.modified < queryset.modified
                                    /\ r.course_id = course_key
                                    /\ is_active[r.user]
                                    /\ r.user \notin exclude_users })
             IN  [completions |-> queryset.completions, position |-> users_above + 1]

\* StudentProgress.get_user_position.  cls.objects.get raises DoesNotExist
\* (caught) on no row and MultipleObjectsReturned (not caught) on several.
get_user_position(course_key, user_id, exclude_users) ==
    LET found == { r \in progress : r.course_id = course_key /\ r.user = user_id }
    IN  IF found = {} THEN [completions |-> 0, position |-> 0]
        ELSE IF Cardinality(found) > 1 THEN [raised |-> "MultipleObjectsReturned"]
        ELSE LET queryset == CHOOSE r \in found : TRUE
                 users_above == Cardinality(UsersAbove(course_key, queryset.completions,
                                                       queryset.modified, exclude_users))
             IN  [completions |-> queryset.completions, position |-> users_above + 1]

\* order_by('-completions', 'modified'): a precedes b.  Rows equal in both keys
\* come back in an order the database picks; tie ranks the users for that pick.
OrderedBefore(a, b, tie) ==
    \/ a.sp.completions > b.sp.completions
    \/ a.sp.completions = b.sp.completions /\ a.sp.modified < b.sp.modified
    \/ a.sp.completions = b.sp.completions /\ a.sp.modified = b.sp.modified
                                           /\ tie[a.sp.user] <= tie[b.sp.user]

RECURSIVE OrderBy(_, _)
OrderBy(queryset, tie) ==
    IF queryset = {} THEN <<>>
    ELSE LET first == CHOOSE a \in queryset : \A b \in queryset : OrderedBefore(a, b, tie)
         IN  <<first>> \o OrderBy(queryset \ {first}, tie)

\* queryset[:count]
Slice(rows, count) ==
    IF count = None THEN rows
    ELSE IF count[1] >= Len(rows) THEN rows ELSE SubSeq(rows, 1, count[1])

\* .values('user__id', ..., 'completions'): username, title and profile image
\* timestamp are attributes of the user and carry no more than the id.
Values(rows) ==
    [i \in 1..Len(rows) |-> [id |-> rows[i].sp.user, completions |-> rows[i].sp.completions]]

\* StudentProgress.generate_leaderboard
generate_leaderboard(course_key, count, exclude_users, org_ids, group_ids, tie) ==
    LET q0 == EnrolledQueryset(course_key, exclude_users)
        q1 == FilterOrganizations(q0, org_ids)
        q2 == IF group_ids # {} THEN Distinct(FilterGroups(q1, group_ids)) ELSE q1
    IN  Values(Slice(OrderBy(q2, tie), count))

\* The orders in which the database may return rows equal in every sort key.
TieOrders == { t \in [Users -> Users] : \A u, v \in Users : t[u] = t[v] => u = v }

\* ------------------------------------------------------------------ query actions
\* A classmethod call reads the tables and returns; call and result record it.

Counts == {None} \cup { <<n>> : n \in 0..NumUsers }

NoCall == [op |-> "none", course_key |-> 0, user_id |-> 0, count |-> None,
           exclude_users |-> {}, org_ids |-> {}, group_ids |-> {}]

Call(name, course_key, user_id, count, exclude_users, org_ids, group_ids) ==
    [op |-> name, course_key |-> course_key, user_id |-> user_id, count |-> count,
     exclude_users |-> exclude_users, org_ids |-> org_ids, group_ids |-> group_ids]

GetTotalCompletions(CourseSet, ExcludeSets, OrgSets, GroupSets) ==
    /\ call.op = "none"
    /\ \E course_key \in CourseSet, exclude_users \in ExcludeSets,
          org_ids \in OrgSets, group_ids \in GroupSets :
          /\ call' = Call("get_total_completions", course_key, 0, None, exclude_users, org_ids, group_ids)
          /\ result' = get_total_completions(course_key, exclude_users, org_ids, group_ids)
    /\ UNCHANGED <<handlers, sites, tables, ingestion>>

GetNumUsersStarted(CourseSet, ExcludeSets, OrgSets, GroupSets) ==
    /\ call.op = "none"
    /\ \E course_key \in CourseSet, exclude_users \in ExcludeSets,
          org_ids \in OrgSets, group_ids \in GroupSets :
          /\ call' = Call("get_num_users_started", course_key, 0, None, exclude_users, org_ids, group_ids)
          /\ result' = get_num_users_started(course_key, exclude_users, org_ids, group_ids)
    /\ UNCHANGED <<handlers, sites, tables, ingestion>>

GetUserPosition ==
    /\ call.op = "none"
    /\ \E course_key \in Courses, user_id \in Users, exclude_users \in SUBSET Users :
          /\ call' = Call("get_user_position", course_key, user_id, None, exclude_users, {}, {})
          /\ result' = get_user_position(course_key, user_id, exclude_users)
    /\ UNCHANGED <<handlers, sites, tables, ingestion>>

GenerateLeaderboard(CourseSet, CountSet, ExcludeSets, OrgSets, GroupSets, TieSet) ==
    /\ call.op = "none"
    /\ \E course_key \in CourseSet, count \in CountSet, exclude_users \in ExcludeSets,
          org_ids \in OrgSets, group_ids \in GroupSets, tie \in TieSet :
          /\ call' = Call("generate_leaderboard", course_key, 0, count, exclude_users, org_ids, group_ids)
          /\ result' = generate_leaderboard(course_key, count, exclude_users, org_ids, group_ids, tie)
    /\ UNCHANGED <<handlers, sites, tables, ingestion>>

\* ------------------------------------------------------------------ the ranking queries over bounded tables

\* What one (user, course) pair can hold: no row, or a row with completions
\* and modified drawn from their ranges.
RowChoices == 0..(MaxCompletions * MaxTime)

RowsOf(choice) ==
    { StudentProgress(uc[1], uc[2], ((choice[uc] - 1) \div MaxTime) + 1, ((choice[uc] - 1) % MaxTime) + 1) :
        uc \in { x \in DOMAIN choice : choice[x] # 0 } }

\* SpecQuery: every table of course 1 over all users, any users active, any
\* enrolled, no organization or group; one unfiltered position or leaderboard
\* query on either course.
QueryInit ==
    /\ \E choice \in [Users \X {1} -> RowChoices] : progress = RowsOf(choice)
    /\ history = NoHistory
    /\ cmc = {}
    /\ IngestionIdle
    /\ UpsertIdle
    /\ SitesIdle
    /\ is_active \in [Users -> BOOLEAN]
    /\ courseenrollment \in SUBSET (Users \X {1})
    /\ organizations = [u \in Users |-> {}]
    /\ groups = [u \in Users |-> {}]
    /\ call = NoCall
    /\ result = 0

QueryNext ==
    \/ GetUserPosition
    \/ GenerateLeaderboard(Courses, Counts, SUBSET Users, {{}}, {{}}, TieOrders)

SpecQuery == QueryInit /\ [][QueryNext]_vars

\* SpecFilter: the first FilterUsers users hold rows of course 1 and belong to
\* organizations and groups (at most MaxMemberships rows in each many-to-many
\* table); one filtered query on course 1.
FilterPopulation == 1..FilterUsers

Memberships(Targets) ==
    { [u \in Users |-> { t \in Targets : <<u, t>> \in m }] :
        m \in { x \in SUBSET (FilterPopulation \X Targets) : Cardinality(x) <= MaxMemberships } }

\* Either order of the database's pick among fully tied rows.
FilterTies == { [u \in Users |-> u], [u \in Users |-> NumUsers + 1 - u] }

FilterInit ==
    /\ \E choice \in [FilterPopulation \X {1} -> RowChoices] : progress = RowsOf(choice)
    /\ history = NoHistory
    /\ cmc = {}
    /\ IngestionIdle
    /\ UpsertIdle
    /\ SitesIdle
    /\ \E inactive \in SUBSET FilterPopulation : is_active = [u \in Users |-> u \notin inactive]
    /\ courseenrollment \in SUBSET (FilterPopulation \X {1})
    /\ organizations \in Memberships(Orgs)
    /\ groups \in Memberships(Groups)
    /\ call = NoCall
    /\ result = 0

FilterNext ==
    \/ GetTotalCompletions({1}, {{}, {1}}, SUBSET Orgs, SUBSET Groups)
    \/ GetNumUsersStarted({1}, {{}, {1}}, SUBSET Orgs, SUBSET Groups)
    \/ GenerateLeaderboard({1}, {None, <<1>>}, {{}, {1}}, SUBSET Orgs, SUBSET Groups, FilterTies)

SpecFilter == FilterInit /\ [][FilterNext]_vars

\* ------------------------------------------------------------------ completion-event ingestion
\* The handler of the course runtime's 'progress' event and the receiver of
\* course_deleted.

\* The content items the events are about, with the category of the item, the
\* category of its structural parent and the categories found in that parent.
ContentItems ==
    [ problem4        |-> [category |-> "problem", parent |-> "vertical", siblings |-> {"problem"}],
      video           |-> [category |-> "video", parent |-> "chapter", siblings |-> {"sequential", "video"}],
      group_project   |-> [category |-> "group-project", parent |-> "vertical", siblings |-> {"problem", "group-project"}],
      problem6        |-> [category |-> "problem", parent |-> "vertical", siblings |-> {"problem", "discussion-forum"}] ]

Items == DOMAIN ContentItems

PROGRESS_DETACHED_CATEGORIES == {"group-project"}

PROGRESS_DETACHED_VERTICAL_CATEGORIES == {"discussion-forum"}

Roles == {"student", "staff", "admin"}

CourseStatuses == {"not_started", "open", "ended"}

\* MayWrite letting course staff and admins write to a course that has ended.
MayWrite_StaffBypass(role, status) ==
    allow_closed \/ status # "ended" \/ role \in {"staff", "admin"}

\* The caller's "may this user write now": with updates on closed courses
\* disallowed nobody writes to a course that has ended, whatever the role.
MayWrite(role, status) == allow_closed \/ status # "ended"

\* Rejects with the checks of the item left out.
Rejects_PermissionOnly(item, role, status) == ~ MayWrite(role, status)

\* The event is dropped: detached category, parent that is no vertical, a
\* vertical holding a detached-vertical category, or no permission to write.
Rejects(item, role, status) ==
    \/ ContentItems[item].category \in PROGRESS_DETACHED_CATEGORIES
    \/ ContentItems[item].parent # "vertical"
    \/ ContentItems[item].siblings \cap PROGRESS_DETACHED_VERTICAL_CATEGORIES # {}
    \/ ~ MayWrite(role, status)

Event(verdict, user, course_id, item, role, status) ==
    [verdict |-> verdict, user |-> user, course_id |-> course_id, item |-> item,
     role |-> role, status |-> status]

\* A CourseModuleCompletion row (stage is never set by the handler).
CourseModuleCompletion(user, course_id, content_id) ==
    [user |-> user, course_id |-> course_id, content_id |-> content_id]

Completions(user, course_id) ==
    LET found == { r \in progress : r.user = user /\ r.course_id = course_id }
    IN  IF found = {} THEN 0 ELSE (CHOOSE r \in found : TRUE).completions

\* A rejected event: nothing is written.
PublishRejected ==
    /\ pc = "idle"
    /\ \E user \in Learners, course_id \in Courses, item \in Items, role \in Roles, status \in CourseStatuses :
          /\ Rejects(item, role, status)
          /\ ev' = Event("rejected", user, course_id, item, role, status)
    /\ pc' = "done"
    /\ UNCHANGED <<handlers, sites, tables, call, result, allow_closed, clock, undo>>

\* An accepted event opens its transaction and inserts or updates the
\* CourseModuleCompletion row.
PublishAccepted ==
    /\ pc = "idle"
    /\ \E user \in Learners, course_id \in Courses, item \in Items, role \in Roles, status \in CourseStatuses :
          /\ ~ Rejects(item, role, status)
          /\ Completions(user, course_id) < MaxCompletions
          /\ undo' = <<progress, history, cmc>>
          /\ cmc' = cmc \cup {CourseModuleCompletion(user, course_id, item)}
          /\ ev' = Event("in_progress", user, course_id, item, role, status)
    /\ pc' = "cmc_saved"
    /\ UNCHANGED <<handlers, sites, progress, history, is_active, courseenrollment, organizations, groups,
                   call, result, allow_closed, clock>>

\* SaveProgress writing a fresh summary over the one that is there.
SaveProgress_Overwrite ==
    /\ pc = "cmc_saved"
    /\ LET old == { r \in progress : r.user = ev.user /\ r.course_id = ev.course_id }
       IN  progress' = (progress \ old) \cup {StudentProgress(ev.user, ev.course_id, 1, clock)}
    /\ pc' = "progress_saved"
    /\ UNCHANGED <<handlers, sites, history, cmc, is_active, courseenrollment, organizations, groups,
                   call, result, allow_closed, clock, ev, undo>>

\* The StudentProgress upsert: insert with completions 1, or increment.
SaveProgress ==
    /\ pc = "cmc_saved"
    /\ LET old == { r \in progress : r.user = ev.user /\ r.course_id = ev.course_id }
       IN  progress' = (progress \ old) \cup
                {StudentProgress(ev.user, ev.course_id, Completions(ev.user, ev.course_id) + 1, clock)}
    /\ pc' = "progress_saved"
    /\ UNCHANGED <<handlers, sites, history, cmc, is_active, courseenrollment, organizations, groups,
                   call, result, allow_closed, clock, ev, undo>>

\* The StudentProgressHistory row for the saved summary; the transaction commits.
SaveHistory ==
    /\ pc = "progress_saved"
    /\ history' = [history EXCEPT ![<<ev.user, ev.course_id>>] =
                       Append(@, Completions(ev.user, ev.course_id))]
    /\ pc' = "done"
    /\ ev' = [ev EXCEPT !.verdict = "accepted"]
    /\ undo' = <<>>
    /\ UNCHANGED <<handlers, sites, progress, cmc, is_active, courseenrollment, organizations, groups,
                   call, result, allow_closed, clock>>

\* A failure between the writes leaves what the transaction wrote.
Fail_NoRollback ==
    /\ pc \in {"cmc_saved", "progress_saved"}
    /\ pc' = "done"
    /\ ev' = [ev EXCEPT !.verdict = "failed"]
    /\ undo' = <<>>
    /\ UNCHANGED <<handlers, sites, tables, call, result, allow_closed, clock>>

\* A failure between the writes rolls the transaction back.
Fail ==
    /\ pc \in {"cmc_saved", "progress_saved"}
    /\ progress' = undo[1]
    /\ history' = undo[2]
    /\ cmc' = undo[3]
    /\ pc' = "done"
    /\ ev' = [ev EXCEPT !.verdict = "failed"]
    /\ undo' = <<>>
    /\ UNCHANGED <<handlers, sites, is_active, courseenrollment, organizations, groups, call, result, allow_closed, clock>>

\* The course_deleted receiver: the course's summaries and history go.
CourseDeleted ==
    /\ pc = "idle"
    /\ \E course_key \in Courses :
          /\ progress' = { r \in progress : r.course_id # course_key }
          /\ history' = [uc \in Users \X Courses |-> IF uc[2] = course_key THEN <<>> ELSE history[uc]]
          /\ ev' = Event("course_deleted", 0, course_key, "", "", "")
    /\ pc' = "done"
    /\ UNCHANGED <<handlers, sites, cmc, is_active, courseenrollment, organizations, groups, call, result,
                   allow_closed, clock, undo>>

\* The handler returns to the runtime.
Return ==
    /\ pc = "done"
    /\ pc' = "idle"
    /\ ev' = NoEvent
    /\ UNCHANGED <<handlers, sites, tables, call, result, allow_closed, clock, undo>>

\* Time passes.
Tick ==
    /\ clock < MaxTime
    /\ clock' = clock + 1
    /\ UNCHANGED <<handlers, sites, tables, call, result, allow_closed, ev, pc, undo>>

Init ==
    /\ progress = {}
    /\ history = NoHistory
    /\ cmc = {}
    /\ is_active = [u \in Users |-> TRUE]
    /\ courseenrollment = Users \X Courses
    /\ organizations = [u \in Users |-> {1}]
    /\ groups = [u \in Users |-> {1}]
    /\ call = NoCall
    /\ result = 0
    /\ allow_closed \in BOOLEAN
    /\ clock = 1
    /\ ev = NoEvent
    /\ pc = "idle"
    /\ undo = <<>>
    /\ UpsertIdle
    /\ SitesIdle

Next ==
    \/ PublishRejected
    \/ PublishAccepted
    \/ SaveProgress
    \/ SaveHistory
    \/ Fail
    \/ CourseDeleted
    \/ Return
    \/ Tick

Spec == Init /\ [][Next]_vars

\* SpecRanked: the ingestion within one tick of the clock, with one ranking
\* query of course 1 run at any moment between or during the events.
RankedNext ==
    \/ PublishRejected
    \/ PublishAccepted
    \/ SaveProgress
    \/ SaveHistory
    \/ Fail
    \/ CourseDeleted
    \/ Return
    \/ GetTotalCompletions({1}, {{}}, {{}}, {{}})
    \/ GetNumUsersStarted({1}, {{}}, {{}}, {{}})

SpecRanked == Init /\ [][RankedNext]_vars

\* ------------------------------------------------------------------ concurrent completion events
\* Several handlers at once, each taking an accepted event through the
\* summary upsert: look the row up, insert it with completions 1 or increment
\* it in the database, then write the history row.  A write is seen by the
\* other handlers at once; failures and rollback are left to Spec.

Handler(pos, user, course_id, seen, saved, verdict) ==
    [pc |-> pos, user |-> user, course_id |-> course_id, seen |-> seen, saved |-> saved,
     verdict |-> verdict]

\* The events of the pair that have been taken up and have not saved yet.
Unsaved(user, course_id) ==
    { h \in Handlers : /\ handlers[h].pc \in {"begun", "looked", "conflict"}
                       /\ handlers[h].user = user
                       /\ handlers[h].course_id = course_id }

\* An accepted event arrives at a free handler, which writes the
\* CourseModuleCompletion row.
HandlerBegin(h) ==
    /\ handlers[h].pc = "idle"
    /\ \E user \in Learners, course_id \in Courses, item \in Items :
          /\ ~ Rejects(item, "student", "open")
          /\ Completions(user, course_id) + Cardinality(Unsaved(user, course_id)) < MaxCompletions
          /\ cmc' = cmc \cup {CourseModuleCompletion(user, course_id, item)}
          /\ handlers' = [handlers EXCEPT ![h] = Handler("begun", user, course_id, 0, 0, "in_progress")]
    /\ UNCHANGED <<sites, progress, history, is_active, courseenrollment, organizations, groups,
                   call, result, ingestion>>

\* The handler looks for the summary of the pair.
HandlerLookup(h) ==
    /\ handlers[h].pc = "begun"
    /\ handlers' = [handlers EXCEPT ![h].pc = "looked",
                                    ![h].seen = Completions(handlers[h].user, handlers[h].course_id)]
    /\ UNCHANGED <<sites, tables, call, result, ingestion>>

\* It found none and inserts one with completions 1; unique_together refuses
\* the insert when another handler has inserted the pair since.
HandlerInsert(h) ==
    /\ handlers[h].pc = "looked"
    /\ handlers[h].seen = 0
    /\ LET user == handlers[h].user
           course_id == handlers[h].course_id
       IN  IF \E r \in progress : r.user = user /\ r.course_id = course_id
           THEN /\ handlers' = [handlers EXCEPT ![h].pc = "conflict"]
                /\ progress' = progress
           ELSE /\ handlers' = [handlers EXCEPT ![h].pc = "saved", ![h].saved = 1]
                /\ progress' = progress \cup {StudentProgress(user, course_id, 1, clock)}
    /\ UNCHANGED <<sites, history, cmc, is_active, courseenrollment, organizations, groups,
                   call, result, ingestion>>

\* HandlerIncrement writing back the completions it read at the lookup, plus 1.
HandlerIncrement_FromLookup(h) ==
    /\ \/ handlers[h].pc = "looked" /\ handlers[h].seen > 0
       \/ handlers[h].pc = "conflict"
    /\ LET user == handlers[h].user
           course_id == handlers[h].course_id
           old == { r \in progress : r.user = user /\ r.course_id = course_id }
           completions == handlers[h].seen + 1
       IN  /\ progress' = (progress \ old) \cup {StudentProgress(user, course_id, completions, clock)}
           /\ handlers' = [handlers EXCEPT ![h].pc = "saved", ![h].saved = completions]
    /\ UNCHANGED <<sites, history, cmc, is_active, courseenrollment, organizations, groups,
                   call, result, ingestion>>

\* It found the row, or its insert was refused: the row is incremented where
\* it stands, in one statement of the database.
HandlerIncrement(h) ==
    /\ \/ handlers[h].pc = "looked" /\ handlers[h].seen > 0
       \/ handlers[h].pc = "conflict"
    /\ LET user == handlers[h].user
           course_id == handlers[h].course_id
           old == { r \in progress : r.user = user /\ r.course_id = course_id }
           completions == Completions(user, course_id) + 1
       IN  /\ progress' = (progress \ old) \cup {StudentProgress(user, course_id, completions, clock)}
           /\ handlers' = [handlers EXCEPT ![h].pc = "saved", ![h].saved = completions]
    /\ UNCHANGED <<sites, history, cmc, is_active, courseenrollment, organizations, groups,
                   call, result, ingestion>>

\* The history row for the summary it saved; the event is accepted.
HandlerHistory(h) ==
    /\ handlers[h].pc = "saved"
    /\ history' = [history EXCEPT ![<<handlers[h].user, handlers[h].course_id>>] =
                       Append(@, handlers[h].saved)]
    /\ handlers' = [handlers EXCEPT ![h].pc = "done", ![h].verdict = "accepted"]
    /\ UNCHANGED <<sites, progress, cmc, is_active, courseenrollment, organizations, groups,
                   call, result, ingestion>>

\* The handler returns to the runtime.
HandlerReturn(h) ==
    /\ handlers[h].pc = "done"
    /\ handlers' = [handlers EXCEPT ![h] = NoHandler]
    /\ UNCHANGED <<sites, tables, call, result, ingestion>>

UpsertNext ==
    \E h \in Handlers :
        \/ HandlerBegin(h)
        \/ HandlerLookup(h)
        \/ HandlerInsert(h)
        \/ HandlerIncrement(h)
        \/ HandlerHistory(h)
        \/ HandlerReturn(h)

SpecUpsert == Init /\ [][UpsertNext]_vars

\* ------------------------------------------------------------------ the redirect middlewares
\* A request goes through process_request in steps: up to the cache lookup,
\* the table query after a miss, the cache write with the response.  Requests
\* in different slots run at the same time.

\* The progress app empty and at rest.
ProgressIdle ==
    /\ progress = {}
    /\ history = NoHistory
    /\ cmc = {}
    /\ is_active = [u \in Users |-> TRUE]
    /\ courseenrollment = {}
    /\ organizations = [u \in Users |-> {}]
    /\ groups = [u \in Users |-> {}]
    /\ call = NoCall
    /\ result = 0
    /\ IngestionIdle
    /\ UpsertIdle

progressapp == <<tables, call, result, ingestion, handlers>>

\* CustomDomainsRedirectMiddleware, lines 28-31.
CustomDomainResponse(custom_domain) ==
    IF custom_domain # <<>> THEN redirect(<<"https://">> \o custom_domain, FALSE) ELSE NoResponse

\* CustomDomainsArrive taking a cached empty string for a miss.
CustomDomainsArrive_EmptyIsMiss(r, HostSet) ==
    /\ requests[r].pc = "idle"
    /\ \E hostname \in HostSet :
          LET request == [NoRequest EXCEPT !.mw = "custom_domains", !.host = hostname]
              cache_key == CacheKey(CUSTOM_DOMAINS_REDIRECT_CACHE_KEY_PREFIX, hostname)
              custom_domain == cache_general[cache_key]
          IN  requests' = [requests EXCEPT ![r] =
                  IF ~ EndsWith(hostname, SITE_NAME)
                  THEN [request EXCEPT !.pc = "done"]
                  ELSE IF ~ cache_up
                  THEN [request EXCEPT !.pc = "done", !.response = Raised]
                  ELSE IF custom_domain = None \/ custom_domain = Some(<<>>)
                  THEN [request EXCEPT !.pc = "missed"]
                  ELSE [request EXCEPT !.pc = "done", !.hit = TRUE, !.value = custom_domain,
                                       !.response = CustomDomainResponse(custom_domain[1])]]
    /\ UNCHANGED <<progressapp, alternativedomain, redirects, cache_general, cache_default, cached_rules, cache_up,
                   policy_settings, creates, latest, writes>>

\* Lines 14-20: a request for a hostname arrives.  Outside SITE_NAME nothing
\* is looked up; else the cache is asked, which raises when it does not
\* answer, and a cached value (the empty string too) decides the response.
CustomDomainsArrive(r, HostSet) ==
    /\ requests[r].pc = "idle"
    /\ \E hostname \in HostSet :
          LET request == [NoRequest EXCEPT !.mw = "custom_domains", !.host = hostname]
              cache_key == CacheKey(CUSTOM_DOMAINS_REDIRECT_CACHE_KEY_PREFIX, hostname)
              custom_domain == cache_general[cache_key]
          IN  requests' = [requests EXCEPT ![r] =
                  IF ~ EndsWith(hostname, SITE_NAME)
                  THEN [request EXCEPT !.pc = "done"]
                  ELSE IF ~ cache_up
                  THEN [request EXCEPT !.pc = "done", !.response = Raised]
                  ELSE IF custom_domain = None
                  THEN [request EXCEPT !.pc = "missed"]
                  ELSE [request EXCEPT !.pc = "done", !.hit = TRUE, !.value = custom_domain,
                                       !.response = CustomDomainResponse(custom_domain[1])]]
    /\ UNCHANGED <<progressapp, alternativedomain, redirects, cache_general, cache_default, cached_rules, cache_up,
                   policy_settings, creates, latest, writes>>

\* Lines 21-25: AlternativeDomain.objects.get(domain=hostname).  No row gives
\* the empty string; several rows raise MultipleObjectsReturned, which the
\* middleware does not catch.
CustomDomainsQuery(r) ==
    /\ requests[r].pc = "missed"
    /\ requests[r].mw = "custom_domains"
    /\ LET request == requests[r]
           found == { a \in alternativedomain : a.domain = request.host }
       IN  requests' = [requests EXCEPT ![r] =
               IF found = {}
               THEN [request EXCEPT !.pc = "queried", !.queries = request.queries + 1,
                                    !.value = Some(<<>>)]
               ELSE IF Cardinality(found) = 1
               THEN [request EXCEPT !.pc = "queried", !.queries = request.queries + 1,
                                    !.value = Some(SiteDomain((CHOOSE a \in found : TRUE).site))]
               ELSE [request EXCEPT !.pc = "done", !.queries = request.queries + 1,
                                    !.response = Raised]]
    /\ UNCHANGED <<progressapp, alternativedomain, redirects, cache_general, cache_default, cached_rules, cache_up,
                   policy_settings, creates, latest, writes>>

\* CustomDomainsSet caching the empty string whatever the query found.
CustomDomainsSet_CachesEmpty(r) ==
    /\ requests[r].pc = "queried"
    /\ requests[r].mw = "custom_domains"
    /\ LET request == requests[r]
           cache_key == CacheKey(CUSTOM_DOMAINS_REDIRECT_CACHE_KEY_PREFIX, request.host)
       IN  IF cache_up
           THEN /\ cache_general' = [cache_general EXCEPT ![cache_key] = Some(<<>>)]
                /\ requests' = [requests EXCEPT ![r].pc = "done",
                                                ![r].response = CustomDomainResponse(request.value[1])]
           ELSE /\ cache_general' = cache_general
                /\ requests' = [requests EXCEPT ![r].pc = "done", ![r].response = Raised]
    /\ UNCHANGED <<progressapp, alternativedomain, redirects, cache_default, cached_rules, cache_up,
                   policy_settings, creates, latest, writes>>

\* Lines 26-31: the value is cached (the cache raises when it does not answer)
\* and decides the response.
CustomDomainsSet(r) ==
    /\ requests[r].pc = "queried"
    /\ requests[r].mw = "custom_domains"
    /\ LET request == requests[r]
           cache_key == CacheKey(CUSTOM_DOMAINS_REDIRECT_CACHE_KEY_PREFIX, request.host)
       IN  IF cache_up
           THEN /\ cache_general' = [cache_general EXCEPT ![cache_key] = request.value]
                /\ requests' = [requests EXCEPT ![r].pc = "done",
                                                ![r].response = CustomDomainResponse(request.value[1])]
           ELSE /\ cache_general' = cache_general
                /\ requests' = [requests EXCEPT ![r].pc = "done", ![r].response = Raised]
    /\ UNCHANGED <<progressapp, alternativedomain, redirects, cache_default, cached_rules, cache_up,
                   policy_settings, creates, latest, writes>>

\* InWhitelist matching an entry at the start of the path only.
InWhitelist_StartsWith(path) ==
    \E p \in MAIN_SITE_REDIRECT_WHITELIST : Len(p) <= Len(path) /\ SubSeq(path, 1, Len(p)) = p

\* RedirectMiddleware, lines 46-48.
InWhitelist(path) == \E p \in MAIN_SITE_REDIRECT_WHITELIST : Contains(p, path)

\* RedirectMiddleware, lines 60-62: redirects.get(request.path), a redirect
\* when it is there and not empty.
PathResponse(mapping, path) ==
    LET found == { m \in mapping : m[1] = path }
    IN  IF found # {} /\ (CHOOSE m \in found : TRUE)[2] # <<>>
        THEN redirect((CHOOSE m \in found : TRUE)[2], TRUE)
        ELSE NoResponse

\* RedirectKey without the site in it.
RedirectKey_NoSite(site) == CacheKey(REDIRECT_CACHE_KEY_PREFIX, SiteDomain(SITE_ID))

\* Line 55: the cache key of a site's redirects.
RedirectKey(site) == CacheKey(REDIRECT_CACHE_KEY_PREFIX, SiteDomain(site))

\* Lines 44-57: a request arrives with its site (0: request.site is None) and
\* path.  The main-site policy runs in a try block that swallows what it
\* raises: missing settings, or a site without id.  Then the cache key is made
\* from site.domain, outside the try block, and the cache is asked.
RedirectArrive(r, SiteSet, PathSet) ==
    /\ requests[r].pc = "idle"
    /\ \E site \in SiteSet, path \in PathSet :
          LET request == [NoRequest EXCEPT !.mw = "redirect", !.site = site, !.path = path]
              to_admin == /\ policy_settings
                          /\ site # 0
                          /\ site = SITE_ID
                          /\ ~ InWhitelist(path)
          IN  requests' = [requests EXCEPT ![r] =
                  IF to_admin
                  THEN [request EXCEPT !.pc = "done", !.response = redirect(ADMIN_URL, FALSE)]
                  ELSE IF site = 0
                  THEN [request EXCEPT !.pc = "done", !.response = Raised]
                  ELSE IF ~ cache_up
                  THEN [request EXCEPT !.pc = "done", !.response = Raised]
                  ELSE IF cache_default[RedirectKey(site)] = None
                  THEN [request EXCEPT !.pc = "missed"]
                  ELSE [request EXCEPT !.pc = "done", !.hit = TRUE,
                                       !.value = cache_default[RedirectKey(site)],
                                       !.response = PathResponse(cache_default[RedirectKey(site)][1], path)]]
    /\ UNCHANGED <<progressapp, alternativedomain, redirects, cache_general, cache_default, cached_rules, cache_up,
                   policy_settings, creates, latest, writes>>

\* Line 58: the mapping old_path -> new_path of the site's Redirect rows.
RedirectQuery(r) ==
    /\ requests[r].pc = "missed"
    /\ requests[r].mw = "redirect"
    /\ LET request == requests[r]
           mapping == { <<rule.old_path, rule.new_path>> :
                            rule \in { x \in redirects : x.site = request.site } }
       IN  requests' = [requests EXCEPT ![r].pc = "queried", ![r].queries = request.queries + 1,
                                        ![r].rules = { x \in redirects : x.site = request.site },
                                        ![r].value = Some(mapping)]
    /\ UNCHANGED <<progressapp, alternativedomain, redirects, cache_general, cache_default, cached_rules, cache_up,
                   policy_settings, creates, latest, writes>>

\* Lines 59-62: the mapping is cached (the cache raises when it does not
\* answer) and decides the response.
RedirectSet(r) ==
    /\ requests[r].pc = "queried"
    /\ requests[r].mw = "redirect"
    /\ LET request == requests[r]
       IN  IF cache_up
           THEN /\ cache_default' = [cache_default EXCEPT ![RedirectKey(request.site)] = request.value]
                /\ cached_rules' = [cached_rules EXCEPT ![RedirectKey(request.site)] = request.rules]
                /\ requests' = [requests EXCEPT ![r].pc = "done",
                                                ![r].response = PathResponse(request.value[1], request.path)]
           ELSE /\ UNCHANGED <<cache_default, cached_rules>>
                /\ requests' = [requests EXCEPT ![r].pc = "done", ![r].response = Raised]
    /\ UNCHANGED <<progressapp, alternativedomain, redirects, cache_general, cache_up,
                   policy_settings, creates, latest, writes>>

\* The response, or the exception, has left process_request.
RequestReturn(r) ==
    /\ requests[r].pc = "done"
    /\ requests' = [requests EXCEPT ![r] = NoRequest]
    /\ UNCHANGED <<progressapp, alternativedomain, redirects, cache_general, cache_default, cached_rules, cache_up,
                   policy_settings, creates, latest, writes>>

\* An entry of caches['general'] reaches CUSTOM_DOMAINS_REDIRECT_CACHE_TIMEOUT.
GeneralExpire ==
    /\ \E k \in GeneralKeys :
          /\ cache_general[k] # None
          /\ cache_general' = [cache_general EXCEPT ![k] = None]
    /\ UNCHANGED <<progressapp, alternativedomain, redirects, cache_default, cached_rules, cache_up,
                   policy_settings, requests, creates, latest, writes>>

\* An entry of the default cache reaches REDIRECT_CACHE_TIMEOUT.
DefaultExpire ==
    /\ \E k \in DefaultKeys :
          /\ cache_default[k] # None
          /\ cache_default' = [cache_default EXCEPT ![k] = None]
          /\ cached_rules' = [cached_rules EXCEPT ![k] = {}]
    /\ UNCHANGED <<progressapp, alternativedomain, redirects, cache_general, cache_up,
                   policy_settings, requests, creates, latest, writes>>

\* The cache backend stops answering: get and set raise.  (A backend that
\* fails without raising gives None and drops the write, which is an entry
\* that expires at once.)
CacheDown ==
    /\ cache_up
    /\ cache_up' = FALSE
    /\ UNCHANGED <<progressapp, alternativedomain, redirects, cache_general, cache_default, cached_rules,
                   policy_settings, requests, creates, latest, writes>>

\* The cache backend answers again, with the entries it had.
CacheBack ==
    /\ ~ cache_up
    /\ cache_up' = TRUE
    /\ UNCHANGED <<progressapp, alternativedomain, redirects, cache_general, cache_default, cached_rules,
                   policy_settings, requests, creates, latest, writes>>

\* A Redirect row is saved: a new rule, or a rule's new_path changed.
RedirectSaved(SiteSet, PathSet) ==
    /\ writes < MaxWrites
    /\ \E site \in SiteSet, old_path \in PathSet, new_path \in NewPaths :
          /\ Redirect(site, old_path, new_path) \notin redirects
          /\ redirects' = { x \in redirects : ~ (x.site = site /\ x.old_path = old_path) }
                              \cup {Redirect(site, old_path, new_path)}
    /\ writes' = writes + 1
    /\ UNCHANGED <<progressapp, alternativedomain, cache_general, cache_default, cached_rules, cache_up,
                   policy_settings, requests, creates, latest>>

\* A Redirect row is deleted.
RedirectDeleted ==
    /\ writes < MaxWrites
    /\ \E rule \in redirects : redirects' = redirects \ {rule}
    /\ writes' = writes + 1
    /\ UNCHANGED <<progressapp, alternativedomain, cache_general, cache_default, cached_rules, cache_up,
                   policy_settings, requests, creates, latest>>

\* ------------------------------------------------------------------ AlternativeDomainSerializer.create
\* serializers.py lines 151-160, in the steps of get_or_create: the get, the
\* insert after DoesNotExist, and the save of a row that was there.

\* The create calls for the site that have not returned.
InFlight(site) == { k \in Creates : creates[k].pc \in {"absent", "got", "done"} /\ creates[k].site = site }

\* The create calls that have yet to write.
Writing == { k \in Creates : creates[k].pc \in {"absent", "got"} }

\* Lines 154-156: get_or_create looks for the row of the site.
CreateCall(k, SiteSet, DomainSet, Limit) ==
    /\ creates[k].pc = "idle"
    /\ writes + Cardinality(Writing) < Limit
    /\ \E site \in SiteSet, domain \in DomainSet :
          /\ creates' = [creates EXCEPT ![k] =
                 [pc |-> IF \E a \in alternativedomain : a.site = site THEN "got" ELSE "absent",
                  site |-> site, domain |-> domain, created |-> FALSE]]
          /\ latest' = [latest EXCEPT ![site] = {domain} \cup { creates[j].domain : j \in InFlight(site) }]
    /\ UNCHANGED <<progressapp, alternativedomain, redirects, cache_general, cache_default, cached_rules, cache_up,
                   policy_settings, requests, writes>>

\* Lines 154-156: get_or_create inserts the row with the defaults.  When the
\* site has got a row since, the insert breaks the one-to-one constraint and
\* get_or_create gets that row.
CreateInsert(k) ==
    /\ creates[k].pc = "absent"
    /\ IF \E a \in alternativedomain : a.site = creates[k].site
       THEN /\ creates' = [creates EXCEPT ![k].pc = "got"]
            /\ UNCHANGED <<alternativedomain, writes>>
       ELSE /\ alternativedomain' = alternativedomain
                                       \cup {AlternativeDomain(creates[k].site, creates[k].domain)}
            /\ creates' = [creates EXCEPT ![k].pc = "done", ![k].created = TRUE]
            /\ writes' = writes + 1
    /\ UNCHANGED <<progressapp, redirects, cache_general, cache_default, cached_rules, cache_up,
                   policy_settings, requests, latest>>

\* CreateSave leaving the row that was there as it is.
CreateSave_KeepsDomain(k) ==
    /\ creates[k].pc = "got"
    /\ creates' = [creates EXCEPT ![k].pc = "done"]
    /\ writes' = writes + 1
    /\ UNCHANGED <<progressapp, alternativedomain, redirects, cache_general, cache_default, cached_rules, cache_up,
                   policy_settings, requests, latest>>

\* Lines 157-159: not created, so the row's domain is set and the row saved.
CreateSave(k) ==
    /\ creates[k].pc = "got"
    /\ alternativedomain' = { a \in alternativedomain : a.site # creates[k].site }
                                \cup {AlternativeDomain(creates[k].site, creates[k].domain)}
    /\ creates' = [creates EXCEPT ![k].pc = "done"]
    /\ writes' = writes + 1
    /\ UNCHANGED <<progressapp, redirects, cache_general, cache_default, cached_rules, cache_up,
                   policy_settings, requests, latest>>

\* Line 160: the call returns the row.
CreateReturn(k) ==
    /\ creates[k].pc = "done"
    /\ creates' = [creates EXCEPT ![k] = NoCreate]
    /\ UNCHANGED <<progressapp, alternativedomain, redirects, cache_general, cache_default, cached_rules, cache_up,
                   policy_settings, requests, latest, writes>>

\* ------------------------------------------------------------------ the specifications of the sites app

\* SpecDomains: requests for any hostname through
\* CustomDomainsRedirectMiddleware, while one client creates alternative
\* domains, cache entries expire and the cache backend comes and goes.
DomainsInit == ProgressIdle /\ SitesIdle

DomainsNext ==
    \/ \E r \in Requests :
          \/ CustomDomainsArrive(r, Hostnames)
          \/ CustomDomainsQuery(r)
          \/ CustomDomainsSet(r)
          \/ RequestReturn(r)
    \/ CreateCall(1, Sites, Hostnames, MaxWrites)
    \/ CreateInsert(1)
    \/ CreateSave(1)
    \/ CreateReturn(1)
    \/ GeneralExpire
    \/ CacheDown
    \/ CacheBack

SpecDomains == DomainsInit /\ [][DomainsNext]_vars

\* SpecRedirects: requests of any site (or none) for any path, one after
\* another through RedirectMiddleware, with or without the policy settings, while Redirect
\* rows are saved and deleted, cache entries expire and the cache backend
\* comes and goes.
RedirectsInit == ProgressIdle /\ SitesEmpty /\ policy_settings \in BOOLEAN

RedirectsNext ==
    \/ \E r \in {1} :
          \/ RedirectArrive(r, 0..NumSites, Paths)
          \/ RedirectQuery(r)
          \/ RedirectSet(r)
          \/ RequestReturn(r)
    \/ RedirectSaved(Sites, Paths)
    \/ RedirectDeleted
    \/ DefaultExpire
    \/ CacheDown
    \/ CacheBack

SpecRedirects == RedirectsInit /\ [][RedirectsNext]_vars

\* SpecRace: requests for one hostname and for one path of one tenant site
\* run through both middlewares at the same time, with a cache that answers
\* and keeps its entries, while one client creates the site's alternative
\* domain and the site's Redirect row for the path is saved and deleted.
RaceHost == <<"a", "y">>

RaceSite == 2

RacePath == <<"p">>

\* The tables the race starts over: any site may own the hostname, the site
\* may have a rule for the path.
AlternativeDomainTables == SUBSET { AlternativeDomain(site, RaceHost) : site \in Sites }

RedirectTables ==
    { t \in SUBSET { Redirect(RaceSite, RacePath, new_path) : new_path \in NewPaths } :
        Cardinality(t) <= 1 }

RaceInit ==
    /\ ProgressIdle
    /\ alternativedomain \in AlternativeDomainTables
    /\ redirects \in RedirectTables
    /\ SitesAtRest
    /\ policy_settings = TRUE

RaceNext ==
    \/ \E r \in Requests :
          \/ CustomDomainsArrive(r, {RaceHost})
          \/ CustomDomainsQuery(r)
          \/ CustomDomainsSet(r)
          \/ RedirectArrive(r, {RaceSite}, {RacePath})
          \/ RedirectQuery(r)
          \/ RedirectSet(r)
          \/ RequestReturn(r)
    \/ CreateCall(1, {RaceSite}, {RaceHost}, MaxWrites)
    \/ CreateInsert(1)
    \/ CreateSave(1)
    \/ CreateReturn(1)
    \/ RedirectSaved({RaceSite}, {RacePath})
    \/ RedirectDeleted

SpecRace == RaceInit /\ [][RaceNext]_vars

\* SpecCreate: create calls at the same time, for any site and domain.
CreateNext ==
    \E k \in Creates :
        \/ CreateCall(k, Sites, Hostnames, MaxCreateCalls)
        \/ CreateInsert(k)
        \/ CreateSave(k)
        \/ CreateReturn(k)

SpecCreate == DomainsInit /\ [][CreateNext]_vars

\* ------------------------------------------------------------------ properties of the ranking queries

\* The summary rows of a user in a course (at most one, by unique_together).
RowsFor(u, c) == { r \in progress : r.user = u /\ r.course_id = c }

HasRow(u, c) == RowsFor(u, c) # {}

TheRow(u, c) == CHOOSE r \in RowsFor(u, c) : TRUE

\* s ranks strictly above r: more completions, or as many reached earlier.
Beats(s, r) ==
    s.completions > r.completions \/ (s.completions = r.completions /\ s.modified < r.modified)

\* The users a filtered query is about: holding a row of the course, active,
\* actively enrolled in the course, not excluded, and in a listed organization
\* and a listed group when that filter is given.
Qualifying(c, exclude, org_ids, group_ids) ==
    { u \in Users : /\ HasRow(u, c)
                    /\ is_active[u]
                    /\ <<u, c>> \in courseenrollment
                    /\ u \notin exclude
                    /\ org_ids # {} => organizations[u] \cap org_ids # {}
                    /\ group_ids # {} => groups[u] \cap group_ids # {} }

RECURSIVE CompletionsOf(_, _)
CompletionsOf(users, c) ==
    IF users = {} THEN 0
    ELSE LET u == CHOOSE x \in users : TRUE
         IN  TheRow(u, c).completions + CompletionsOf(users \ {u}, c)

IsPrefix(s, t) == Len(s) <= Len(t) /\ \A i \in 1..Len(s) : s[i] = t[i]

Min(a, b) == IF a <= b THEN a ELSE b

\* C1: every user listed by generate_leaderboard(course, count=None,
\* exclude_users=E) with no organization or group filter has
\* get_user_position(course, user, E).position equal to the user's 1-based
\* index in the listing.  Stated for the tables in which no two rows of the
\* course are equal in both completions and modified, where the listing has
\* one order only: it fails there already (and on fully tied rows as well,
\* which share one position and take two places of the listing).
NoFullTie(c) ==
    \A r, s \in progress :
        (r.course_id = c /\ s.course_id = c /\ r.completions = s.completions /\ r.modified = s.modified)
        => r = s

PositionMatchesLeaderboard ==
    (/\ call.op = "generate_leaderboard"
     /\ call.count = None
     /\ call.org_ids = {}
     /\ call.group_ids = {}
     /\ NoFullTie(call.course_key))
    => \A i \in 1..Len(result) :
          get_user_position(call.course_key, result[i].id, call.exclude_users).position = i

\* C2: for a user holding a row in the course, get_user_position returns the
\* row's completions and position 1 + the number of active, not excluded users
\* whose row of that course beats it; the user's own exclusion does not matter.
PositionCountsUsersAbove ==
    (call.op = "get_user_position" /\ HasRow(call.user_id, call.course_key))
    => LET mine == TheRow(call.user_id, call.course_key)
           above == { v \in Users : /\ HasRow(v, call.course_key)
                                    /\ is_active[v]
                                    /\ v \notin call.exclude_users
                                    /\ Beats(TheRow(v, call.course_key), mine) }
       IN  /\ result = [completions |-> mine.completions, position |-> 1 + Cardinality(above)]
           /\ result.position >= 1

\* An excluded user is ranked second, behind a user who reached the same
\* completions earlier.
ExcludedUserRankedSecond ==
    /\ call.op = "get_user_position"
    /\ call.user_id \in call.exclude_users
    /\ HasRow(call.user_id, call.course_key)
    /\ result.position = 2
    /\ \E v \in Users \ call.exclude_users :
          /\ HasRow(v, call.course_key)
          /\ TheRow(v, call.course_key).completions = result.completions
          /\ TheRow(v, call.course_key).modified < TheRow(call.user_id, call.course_key).modified

\* C3: generate_leaderboard returns the first min(count, N) of the N
\* qualifying summaries (all N without a count), in completions-descending
\* then modified-ascending order, each user at most once, a limited result
\* being a prefix of the unlimited one.
LeaderboardIsSortedPrefix ==
    call.op = "generate_leaderboard"
    => LET c == call.course_key
           N == Cardinality(Qualifying(c, call.exclude_users, call.org_ids, call.group_ids))
       IN  /\ Len(result) = (IF call.count = None THEN N ELSE Min(call.count[1], N))
           /\ \A i \in 1..Len(result) : result[i].id \in Qualifying(c, call.exclude_users, call.org_ids, call.group_ids)
           /\ \A i \in 1..(Len(result) - 1) :
                 ~ Beats(TheRow(result[i + 1].id, c), TheRow(result[i].id, c))
           /\ \A i, j \in 1..Len(result) : result[i].id = result[j].id => i = j
           /\ \E tie \in TieOrders :
                 IsPrefix(result, generate_leaderboard(c, None, call.exclude_users,
                                                       call.org_ids, call.group_ids, tie))

\* C4: with a group filter, get_total_completions is the sum of the
\* completions of the qualifying users, each counted once, also for a user in
\* two or more of the listed groups.
GroupFilterCountsOnce ==
    (call.op = "get_total_completions" /\ call.group_ids # {})
    => result = CompletionsOf(Qualifying(call.course_key, call.exclude_users,
                                         call.org_ids, call.group_ids), call.course_key)

\* A total over two listed groups, with a qualifying user in both of them.
UserInTwoListedGroups ==
    /\ call.op = "get_total_completions"
    /\ Cardinality(call.group_ids) = 2
    /\ \E u \in Qualifying(call.course_key, call.exclude_users, call.org_ids, call.group_ids) :
          /\ call.group_ids \subseteq groups[u]
          /\ result = TheRow(u, call.course_key).completions

\* C5: for every exclude_users, org_ids and group_ids, get_total_completions
\* is the sum of the completions of the distinct qualifying summary rows; a
\* user in two listed organizations counts once.
TotalCountsEachRowOnce ==
    call.op = "get_total_completions"
    => result = CompletionsOf(Qualifying(call.course_key, call.exclude_users,
                                         call.org_ids, call.group_ids), call.course_key)

\* C6: get_user_position for a (course, user) pair without a summary row
\* returns position 0 and completions 0, and raises nothing.
NoRowGivesZeroPosition ==
    (call.op = "get_user_position" /\ ~ HasRow(call.user_id, call.course_key))
    => result = [completions |-> 0, position |-> 0]

\* A position asked for a course the user has no row in, while the user has a
\* row in another course and other users have rows.
NoRowAmongOtherRows ==
    /\ call.op = "get_user_position"
    /\ ~ HasRow(call.user_id, call.course_key)
    /\ \E c \in Courses : HasRow(call.user_id, c)
    /\ \E v \in Users \ {call.user_id} : \E c \in Courses : HasRow(v, c)
    /\ result = [completions |-> 0, position |-> 0]

\* ------------------------------------------------------------------ properties of the ingestion

\* The item of the event is of a detached category, or no child of a vertical.
InvalidItem(item) ==
    \/ ContentItems[item].category \in PROGRESS_DETACHED_CATEGORIES
    \/ ContentItems[item].parent # "vertical"

\* The step on which the handler takes up a completion event.
EventArrives == pc = "idle" /\ ev'.verdict \in {"rejected", "in_progress"}

ClosedCourseWritesNothing ==
    [][ /\ (EventArrives /\ ~ allow_closed /\ ev'.status = "ended")
              => (ev'.verdict = "rejected" /\ pc' = "done" /\ cmc' = cmc)
        /\ (/\ EventArrives
            /\ ~ allow_closed
            /\ ev'.status \in {"open", "not_started"}
            /\ ~ InvalidItem(ev'.item)
            /\ ContentItems[ev'.item].siblings \cap PROGRESS_DETACHED_VERTICAL_CATEGORIES = {})
              => CourseModuleCompletion(ev'.user, ev'.course_id, ev'.item) \in cmc'
        /\ (~ allow_closed /\ ev'.verdict = "accepted")
              => (/\ ev'.status \in {"open", "not_started"}
                  /\ CourseModuleCompletion(ev'.user, ev'.course_id, ev'.item) \in cmc') ]_vars

\* An admin's event on a qualifying item of an ended course was rejected.
AdminRejectedOnEndedCourse ==
    /\ pc = "done"
    /\ ~ allow_closed
    /\ ev.verdict = "rejected"
    /\ ev.role = "admin"
    /\ ev.status = "ended"
    /\ ev.item = "problem4"

\* C9: the course_deleted receiver leaves no StudentProgress and no
\* StudentProgressHistory row of the course and does not touch the rows of
\* other courses; after it every ranking query on the course gives the zero
\* result.
CourseDeletedClearsCourse ==
    [][ \A c \in Courses :
        (pc = "idle" /\ ev'.verdict = "course_deleted" /\ ev'.course_id = c)
        => /\ { r \in progress' : r.course_id = c } = {}
           /\ \A u \in Users : history'[<<u, c>>] = <<>>
           /\ { r \in progress' : r.course_id # c } = { r \in progress : r.course_id # c }
           /\ \A uc \in Users \X Courses : uc[2] # c => history'[uc] = history[uc]
           /\ \A exclude \in SUBSET Users, org_ids \in SUBSET Orgs, group_ids \in SUBSET Groups :
                 /\ get_total_completions(c, exclude, org_ids, group_ids)' = 0
                 /\ get_num_users_started(c, exclude, org_ids, group_ids)' = 0
                 /\ \A tie \in TieOrders :
                       generate_leaderboard(c, None, exclude, org_ids, group_ids, tie)' = <<>>
                 /\ \A u \in Users :
                       get_user_position(c, u, exclude)' = [completions |-> 0, position |-> 0] ]_vars

\* A course that had completions was deleted while another course keeps its rows.
CourseDeletedAmongOthers ==
    /\ pc = "done"
    /\ ev.verdict = "course_deleted"
    /\ \E r \in cmc : r.course_id = ev.course_id
    /\ \E r \in progress : r.course_id # ev.course_id /\ r.completions = MaxCompletions

\* C10: the three writes of an accepted event are atomic.  Whenever no event
\* is in progress, also after a failure between the writes, every (user,
\* course) has one history entry per save of its summary (the saves take the
\* completions from 1 up), the latest entry carrying the summary's
\* completions, and a pair without a summary has no entry.
SummaryMatchesHistory ==
    pc \in {"idle", "done"}
    => \A uc \in Users \X Courses :
          LET n == Completions(uc[1], uc[2])
          IN  /\ Len(history[uc]) = n
              /\ \A i \in 1..n : history[uc][i] = i
              /\ (n > 0 => history[uc][Len(history[uc])] = n)

\* The second event of a user in a course failed between its writes.
EventFailedAfterFirst ==
    /\ pc = "done"
    /\ ev.verdict = "failed"
    /\ Completions(ev.user, ev.course_id) = 1
    /\ history[<<ev.user, ev.course_id>>] = <<1>>

\* The completions of the committed summary of a user in a course, 0 without a
\* row: what every reader outside the running event's transaction sees.
Committed(u, c) ==
    LET table == IF undo = <<>> THEN progress ELSE undo[1]
        found == { r \in table : r.user = u /\ r.course_id = c }
    IN  IF found = {} THEN 0 ELSE (CHOOSE r \in found : TRUE).completions

\* C12: for every (user, course) the committed completions change on two
\* steps only: the commit of an accepted event of that user in that course,
\* which raises them by exactly 1 (from no row to 1 on the first), and the
\* deletion of that course, which removes the row.  Rejected events, failed
\* events, events of others and ranking queries leave them as they are, so
\* they never decrease but by a course deletion.
CompletionsOnlyGrow ==
    [][ \A u \in Users, c \in Courses :
          LET accepted == ev'.verdict = "accepted" /\ ev.verdict = "in_progress"
                              /\ ev'.user = u /\ ev'.course_id = c
              deleted == pc = "idle" /\ ev'.verdict = "course_deleted" /\ ev'.course_id = c
          IN  /\ accepted => Committed(u, c)' = Committed(u, c) + 1
              /\ deleted => Committed(u, c)' = 0
              /\ (~ accepted /\ ~ deleted) => Committed(u, c)' = Committed(u, c) ]_vars

\* A second event of a user in a course was accepted after a ranking query
\* that counted the first, and the summary stands at 2.
SecondEventAcceptedAfterQuery ==
    /\ pc = "done"
    /\ ev.verdict = "accepted"
    /\ Committed(ev.user, ev.course_id) = 2
    /\ call.op = "get_total_completions"
    /\ result = 1

\* ------------------------------------------------------------------ properties of concurrent completion events

\* The handlers that have saved the summary of the pair and not yet written
\* their history row.
SavedOnly(u, c) ==
    { h \in Handlers : handlers[h].pc = "saved" /\ handlers[h].user = u /\ handlers[h].course_id = c }

RequestArrives(r) == requests[r].pc = "idle" /\ requests'[r].pc # "idle"

RequestEnds(r) == requests[r].pc # "done" /\ requests'[r].pc = "done"

\* The AlternativeDomain rows of a hostname, and what the table says of it:
\* the domain of the site that owns it, the empty string when no site does.
RowsOfHost(hostname) == { a \in alternativedomain : a.domain = hostname }

Resolve(hostname) ==
    IF RowsOfHost(hostname) = {} THEN <<>> ELSE SiteDomain((CHOOSE a \in RowsOfHost(hostname) : TRUE).site)

GeneralKey(hostname) == CacheKey(CUSTOM_DOMAINS_REDIRECT_CACHE_KEY_PREFIX, hostname)

AdminRedirect == redirect(ADMIN_URL, FALSE)

\* C13: a request for a hostname under SITE_NAME that arrives while the
\* hostname's entry is in the cache (an earlier request resolved it and the
\* entry has not expired), the cache answering, ends at once without a query
\* of the AlternativeDomain table, with the response the cached value stands
\* for: a redirect for a cached domain, none for the cached empty string; it
\* is the response of the request that cached the value.
CachedHostnameAnsweredFromCache ==
    [][ \A r \in Requests, h \in Hostnames :
          (/\ RequestArrives(r)
           /\ requests'[r].mw = "custom_domains"
           /\ requests'[r].host = h
           /\ cache_up
           /\ cache_general[GeneralKey(h)] # None)
          => /\ requests'[r].pc = "done"
             /\ requests'[r].queries = 0
             /\ requests'[r].response.kind # "raise"
             /\ (requests'[r].response.kind = "redirect") = (cache_general[GeneralKey(h)] # Some(<<>>))
             /\ \A q \in Requests :
                   (/\ requests[q].pc = "done"
                    /\ requests[q].mw = "custom_domains"
                    /\ requests[q].host = h
                    /\ requests[q].queries = 1
                    /\ requests[q].response.kind # "raise"
                    /\ requests[q].value = cache_general[GeneralKey(h)])
                   => requests'[r].response = requests[q].response ]_vars

\* A hostname without a row was resolved by one request, which queried the
\* table, and a second request for it was answered from the cached empty
\* string without a query.
UnmappedHostnameAnsweredFromCache ==
    \E q, r \in Requests :
        /\ requests[q].pc = "done" /\ requests[r].pc = "done"
        /\ requests[q].host = requests[r].host
        /\ requests[q].queries = 1 /\ ~ requests[q].hit
        /\ requests[r].queries = 0 /\ requests[r].hit
        /\ requests[r].value = Some(<<>>)
        /\ requests[q].response = NoResponse /\ requests[r].response = NoResponse

\* C14: a request that ends while the cache does not answer still gets the
\* response the AlternativeDomain table stands for, and no exception.
CacheFailureFallsBackToTable ==
    [][ \A r \in Requests :
          (/\ RequestEnds(r)
           /\ requests'[r].mw = "custom_domains"
           /\ EndsWith(requests'[r].host, SITE_NAME)
           /\ Cardinality(RowsOfHost(requests'[r].host)) <= 1
           /\ ~ cache_up)
          => /\ requests'[r].response.kind # "raise"
             /\ \A h \in Hostnames :
                   requests'[r].host = h => requests'[r].response = CustomDomainResponse(Resolve(h)) ]_vars

\* C15: with the cache answering, a request ends with a non-permanent
\* redirect to "https://" + the domain of the site that owns the hostname
\* when the AlternativeDomain table has a row for the hostname, and with no
\* response when it has none.
RedirectIffAlternativeDomain ==
    [][ \A r \in Requests, h \in Hostnames :
          (/\ RequestEnds(r)
           /\ requests'[r].mw = "custom_domains"
           /\ requests'[r].host = h
           /\ Cardinality(RowsOfHost(h)) <= 1
           /\ cache_up)
          => requests'[r].response =
                 IF RowsOfHost(h) # {}
                 THEN redirect(<<"https://">> \o Resolve(h), FALSE)
                 ELSE NoResponse ]_vars

\* The entry of a substring of the path in the whitelist.
Matches(path) ==
    \E entry \in MAIN_SITE_REDIRECT_WHITELIST :
        \E i \in 1..(Len(path) + 1), j \in 0..Len(path) : SubSeq(path, i, j) = entry

\* C16: a request of a site that ends without an exception and without the
\* redirect to the admin URL is decided by Redirect rows of its own site only,
\* the rows its site's cache entry was built from (the rows it read itself
\* after a miss): a permanent redirect to new_path when they hold (site, path,
\* new_path) with new_path not empty, no response otherwise.
PathRedirectIsSiteScoped ==
    [][ \A r \in Requests, site \in Sites, path \in Paths :
          (/\ RequestEnds(r)
           /\ requests'[r].mw = "redirect"
           /\ requests'[r].site = site
           /\ requests'[r].path = path
           /\ requests'[r].response.kind # "raise"
           /\ requests'[r].response # AdminRedirect)
          => LET rules == IF requests'[r].hit THEN cached_rules[RedirectKey(site)] ELSE requests'[r].rules
                 live == { x \in rules : x.old_path = path /\ x.new_path # <<>> }
             IN  /\ \A x \in rules : x.site = site
                 /\ \A x \in live : requests'[r].response = redirect(x.new_path, TRUE)
                 /\ live = {} => requests'[r].response = NoResponse ]_vars

\* A tenant's request was answered from the cache with no response, for a
\* path that a cached rule of the main site redirects.
OtherSitesRuleCausesNoRedirect ==
    \E r \in Requests :
        /\ requests[r].pc = "done"
        /\ requests[r].mw = "redirect"
        /\ requests[r].site # SITE_ID /\ requests[r].site # 0
        /\ requests[r].hit
        /\ requests[r].response = NoResponse
        /\ Redirect(SITE_ID, requests[r].path, <<"n">>) \in redirects
        /\ Redirect(SITE_ID, requests[r].path, <<"n">>) \in cached_rules[RedirectKey(SITE_ID)]

\* C17: with the policy settings in place, a request of the main site whose
\* path holds no whitelist entry is answered on arrival with the redirect to
\* the admin URL, before the cache or the Redirect table is looked at; no
\* request of the main site for a whitelisted path and no request of another
\* site ever gets that redirect.
MainSiteRequestsGoToAdmin ==
    [][ \A r \in Requests :
          /\ (/\ RequestArrives(r)
              /\ requests'[r].mw = "redirect"
              /\ policy_settings
              /\ requests'[r].site = SITE_ID
              /\ ~ Matches(requests'[r].path))
             => (/\ requests'[r].pc = "done"
                 /\ requests'[r].response = AdminRedirect
                 /\ requests'[r].queries = 0
                 /\ requests'[r].value = None)
          /\ (requests'[r].mw = "redirect" /\ requests'[r].response = AdminRedirect)
             => (/\ requests'[r].site = SITE_ID
                 /\ ~ Matches(requests'[r].path)) ]_vars

\* A request of the main site got the admin redirect for a path that a rule
\* of the main site, cached at that moment, redirects elsewhere.
AdminRedirectBeforePathRule ==
    \E r \in Requests :
        /\ requests[r].pc = "done"
        /\ requests[r].site = SITE_ID
        /\ requests[r].response = AdminRedirect
        /\ Redirect(SITE_ID, requests[r].path, <<"n">>) \in redirects
        /\ Redirect(SITE_ID, requests[r].path, <<"n">>) \in cached_rules[RedirectKey(SITE_ID)]

\* C18: a request without a usable site, or with the policy settings missing,
\* arriving while the cache answers, gets no exception out of
\* process_request and no redirect to the admin URL.
PolicyFailureIsSwallowed ==
    [][ \A r \in Requests :
          (/\ RequestArrives(r)
           /\ requests'[r].mw = "redirect"
           /\ cache_up
           /\ (requests'[r].site = 0 \/ ~ policy_settings))
          => /\ requests'[r].response.kind # "raise"
             /\ requests'[r].response # AdminRedirect ]_vars

\* The mapping old_path -> new_path the Redirect table holds for a site.
MappingOf(site) == { <<x.old_path, x.new_path>> : x \in { y \in redirects : y.site = site } }

\* C19: as long as no create call has touched the AlternativeDomain table,
\* however the requests for a hostname race, the hostname's cache entry is
\* the value the table stands for and every request that has ended has the
\* response the table stands for (an exception when two sites own the
\* hostname); and the same for the requests of a site, its cache entry and
\* the Redirect table, as long as no Redirect row was written.
RacersAgreeWithTable ==
    /\ (\A site \in Sites : latest[site] = {})
       => /\ \A h \in Hostnames :
                cache_general[GeneralKey(h)] # None => cache_general[GeneralKey(h)] = Some(Resolve(h))
          /\ \A r \in Requests :
                (requests[r].pc = "done" /\ requests[r].mw = "custom_domains")
                => requests[r].response =
                       IF Cardinality(RowsOfHost(requests[r].host)) > 1
                       THEN Raised
                       ELSE CustomDomainResponse(Resolve(requests[r].host))
    /\ writes = 0
       => /\ \A site \in Sites :
                cache_default[RedirectKey(site)] # None
                => cache_default[RedirectKey(site)] = Some(MappingOf(site))
          /\ \A r \in Requests :
                (requests[r].pc = "done" /\ requests[r].mw = "redirect")
                => requests[r].response = PathResponse(MappingOf(requests[r].site), requests[r].path)

\* Two requests for a hostname both missed the cache, both queried the
\* untouched AlternativeDomain table and both redirect; meanwhile the site's
\* cache entry, written by a request that had read the Redirect table before
\* a rule was saved, is older than the table.
RacersAgreeAndStaleEntryStays ==
    /\ \A site \in Sites : latest[site] = {}
    /\ \A r \in Requests :
          /\ requests[r].pc = "done"
          /\ requests[r].mw = "custom_domains"
          /\ requests[r].queries = 1
          /\ requests[r].response.kind = "redirect"
    /\ cache_default[RedirectKey(RaceSite)] # None
    /\ cache_default[RedirectKey(RaceSite)] # Some(MappingOf(RaceSite))

\* ------------------------------------------------------------------ properties of AlternativeDomainSerializer.create

RowsOfSite(site) == { a \in alternativedomain : a.site = site }

\* C20: however the create calls interleave, a site never has two
\* AlternativeDomain rows; and once every call for a site has written, the
\* site's row carries the domain of a most recent call for it: of the last
\* call when the calls came one after another, else of one of the calls that
\* no later call has followed.
OneRowWithLatestDomain ==
    \A site \in Sites :
        /\ Cardinality(RowsOfSite(site)) <= 1
        /\ (latest[site] # {} /\ \A k \in Writing : creates[k].site # site)
           => \E a \in RowsOfSite(site) : a.domain \in latest[site]

\* Two create calls for one site ran together: one inserted the row, the
\* other found it and overwrote its domain with its own.
CreateOverwroteRow ==
    \E j, k \in Creates :
        /\ creates[j].pc = "done" /\ creates[k].pc = "done"
        /\ creates[j].site = creates[k].site
        /\ creates[j].domain # creates[k].domain
        /\ creates[j].created /\ ~ creates[k].created
        /\ RowsOfSite(creates[k].site) = {AlternativeDomain(creates[k].site, creates[k].domain)}

====
